---- MODULE Spec2Model ----
(***************************************************************************)
(* Model of the two services of the repository:                            *)
(*   src/backend/main.py  the game-codes storefront (auth, catalog, code   *)
(*                        inventory, checkout)                             *)
(*   src/main.py          the MMORPG helper (OSRS hiscores, FFXIV search)  *)
(* The document store (module `database`, not part of the sources) is      *)
(* modelled from the specification: a collection is the sequence of its    *)
(* documents in insertion order, a document's id is its position, create   *)
(* appends, find returns the first `limit` matching documents.  The        *)
(* storefront assumes the store available; the helper catches a refused    *)
(* write of a log entry, which is an input of its actions.                 *)
(*                                                                         *)
(* A handler yields at each store operation, so an action is one store     *)
(* operation of one request.  Three specifications:                        *)
(*   Spec      the storefront serving one request after the other;         *)
(*   SpecConc  the storefront serving two requests at once, from a seeded  *)
(*             store;                                                      *)
(*   SpecOsrs  the helper service, its searches served at once.            *)
(***************************************************************************)
EXTENDS Integers, Sequences, FiniteSets, TLC

\* ------------------------------------------------------------------ bounds
\* Total number of documents the storefront's store may hold.
MaxDocs == 6
\* Number of search-log entries the helper's store may hold.
MaxLogs == 3

\* ------------------------------------------------------------------ inputs
None == "none"
AdminEmail == "root@x.io"
Emails == {"root@x.io", "ann@x.io"}

\* What a request carries as its token: nothing, a string jwt.decode rejects
\* (bad signature, expired, malformed), or a payload jwt.decode returns.
Jwt(sub, role) == [kind |-> "jwt", sub |-> sub, role |-> role]
Tokens ==
    {[kind |-> "missing", sub |-> None, role |-> None],
     [kind |-> "garbled", sub |-> None, role |-> None],
     Jwt(None, "user"),
     Jwt("root@x.io", "admin"),
     Jwt("ann@x.io", "user")}

\* Product documents an admin may create.
ProductInputs ==
    {[price_cents |-> 1999, currency |-> "usd"],
     [price_cents |-> 500, currency |-> "eur"]}

\* product_id / codes of an addCodes request (product_id is not validated).
PidInputs == {1, 2}
CodeBatches == {<<"K1">>, <<"K1", "K2">>}

\* Carts of a checkout-init request; product 9 is never in the catalog.
Item(p, q) == [product_id |-> p, quantity |-> q]
Carts ==
    {<< >>,
     <<Item(1, 2)>>,
     <<Item(1, 1), Item(1, 1)>>,
     <<Item(2, 1), Item(1, 1)>>,
     <<Item(1, 1), Item(9, 1)>>,
     <<Item(9, 1), Item(1, 1)>>}

\* Outcome of the payment-intent request.
\* Payment side of a checkout-init request: the key the serving instance is
\* configured with ("" = none, no request is made) and the request's outcome.
PayOutcomes == {"ok", "ok_nosecret", "non2xx", "exception"}
PayCases == {<<"", "skipped">>} \cup {<<"sk_test", o>> : o \in PayOutcomes}
OrderIdInputs == {1, 2, 3}

\* Interleaved requests: the request slots, the stores they start from (one or
\* two products, a stock of codes for product 1, two pending orders), and the
\* tokens and payment outcomes the interleaved requests carry.
Serial == 0
Slots == {1, 2}
StockInputs == {<< >>, <<"K1">>, <<"K1", "K2">>, <<"K1", "K2", "K3">>}
ConcCarts ==
    {<<Item(1, 1)>>, <<Item(1, 2)>>, <<Item(1, 1), Item(1, 1)>>,
     <<Item(1, 1), Item(2, 1)>>}
ConcCatalogs ==
    {<<[price_cents |-> 1999, currency |-> "usd"]>>,
     <<[price_cents |-> 1999, currency |-> "usd"],
       [price_cents |-> 500, currency |-> "eur"]>>}
ConcOrderIds == {1, 2, 3}
ConcTokens ==
    {[kind |-> "missing", sub |-> None, role |-> None],
     Jwt("root@x.io", "admin"),
     Jwt("ann@x.io", "user")}
ConcPayCases == {<<"", "skipped">>, <<"sk_test", "ok">>, <<"sk_test", "exception">>}

\* Helper service: usernames as typed (sequences of characters), what the
\* hiscore request does, and the text it answers with (a line is the sequence
\* of its comma-separated numbers; any other length does not unpack).
NameInputs ==
    {<< >>, <<" ">>, <<"z">>, <<" ", "z">>, <<"z", " ">>, <<"z", "z">>}
HiscoreOutcomes == {"ok", "404", "http_error", "exception"}
NumSkills == 24
Feeds ==
    {[i \in 1..NumSkills |-> <<i, 50, 1000>>],
     <<<<7, 99, 13034431>>, <<8, 1>>>>,
     << >>}

\* Character search: the world as typed (an absent world reads as the empty
\* string), what the search request does, and the results it answers with.
XivNameInputs == {<< >>, <<"z">>, <<" ", "z">>}
WorldInputs == {<< >>, <<" ">>, <<"w">>}
MaxResults == 10
XivResults == {[i \in 1..n |-> [ID |-> i]] : n \in {0, 2, 11}}

VARIABLES
    user,           \* collection "user"
    product,        \* collection "product"
    codekey,        \* collection "codekey"
    order,          \* collection "order"
    given,          \* per order: codekey documents its last successful confirm selected
    resp,           \* the response of the last completed request
    req,            \* requests in flight (interleaved handlers)
    searchlog       \* collection "searchlog" of the helper service

vars == <<user, product, codekey, order, given, resp, req, searchlog>>

store == <<user, product, codekey, order>>

\* ------------------------------------------------------- document store
Min(a, b) == IF a < b THEN a ELSE b

Ids(coll) == [i \in 1..Len(coll) |-> i]

\* find(collection, filter, limit): ids of the first `limit` matching
\* documents; the filter is given as the set of ids of the documents it matches.
get_documents(coll, matching, limit) ==
    LET hits == SelectSeq(Ids(coll), LAMBDA i : i \in matching)
    IN  SubSeq(hits, 1, Min(limit, Len(hits)))

\* create(collection, doc): the collection with the document appended.
create_document(coll, doc) == Append(coll, doc)

NumDocs == Len(user) + Len(product) + Len(codekey) + Len(order)

\* ------------------------------------------------------------ responses
NoResp ==
    [op |-> "none", status |-> 0, id |-> 0, inserted |-> << >>,
     order_id |-> 0, total_cents |-> 0, client_secret |-> None, pay |-> None,
     codes |-> << >>, docs |-> << >>, sub |-> None,
     username |-> << >>, skills |-> << >>, token |-> None, cart |-> << >>,
     results |-> << >>, log |-> None]

Reply(op, status) == [NoResp EXCEPT !.op = op, !.status = status]

\* ------------------------------------------------------------------ auth
get_user_by_email(users, email) ==
    get_documents(users, {i \in DOMAIN users : users[i].email = email}, 1)

\* The dependency of the admin operations: 200 with the caller, or the error.
get_current_user(token, users) ==
    IF token.kind = "missing" THEN [status |-> 422, email |-> None, role |-> None]
    ELSE IF token.kind = "garbled" THEN [status |-> 401, email |-> None, role |-> None]
    ELSE IF token.sub = None THEN [status |-> 401, email |-> None, role |-> None]
    ELSE IF get_user_by_email(users, token.sub) = << >>
         THEN [status |-> 401, email |-> None, role |-> None]
    ELSE [status |-> 200, email |-> token.sub,
          role |-> IF token.role = None THEN "user" ELSE token.role]

\* Status the admin gate lets a request through with (200), or rejects it with.
AdminGate(token, users) ==
    LET current == get_current_user(token, users)
    IN  IF current.status # 200 THEN current.status
        ELSE IF current.role # "admin" THEN 403
        ELSE 200

\* -------------------------------------------------------- code inventory
CodeKey(pid, code) ==
    [product_id |-> pid, code |-> code, assigned |-> FALSE, order_id |-> 0]

\* The codekey collection after the inserts of one add_codes call that no
\* other request interleaves with.
RECURSIVE InsertCodes(_, _, _)
InsertCodes(cks, pid, codes) ==
    IF codes = << >> THEN cks
    ELSE InsertCodes(create_document(cks, CodeKey(pid, Head(codes))), pid, Tail(codes))

find_available_codes(cks, product_id, quantity) ==
    get_documents(cks,
                  {i \in DOMAIN cks :
                      cks[i].product_id = product_id /\ cks[i].assigned = FALSE},
                  quantity)

\* -------------------------------------------------------------- checkout
\* Mutant: the subtotal is assigned, not accumulated.
PriceItemAssign(item, products, subtotal, currency) ==
    LET prods == get_documents(products, {i \in DOMAIN products : i = item.product_id}, 1)
    IN  IF prods = << >>
        THEN [status |-> 400, subtotal |-> subtotal, currency |-> currency]
        ELSE [status |-> 200,
              subtotal |-> products[prods[1]].price_cents * item.quantity,
              currency |-> products[prods[1]].currency]

\* Mutant: an item whose product is missing is passed over.
PriceItemSkipInvalid(item, products, subtotal, currency) ==
    LET prods == get_documents(products, {i \in DOMAIN products : i = item.product_id}, 1)
    IN  IF prods = << >>
        THEN [status |-> 200, subtotal |-> subtotal, currency |-> currency]
        ELSE [status |-> 200,
              subtotal |-> subtotal + products[prods[1]].price_cents * item.quantity,
              currency |-> products[prods[1]].currency]

\* One round of the pricing loop of checkout_init: the product of the item is
\* read; 400 when it is not in the catalog, else the subtotal grows by price
\* times quantity and the currency is the product's.
PriceItem(item, products, subtotal, currency) ==
    LET prods == get_documents(products, {i \in DOMAIN products : i = item.product_id}, 1)
    IN  IF prods = << >>
        THEN [status |-> 400, subtotal |-> subtotal, currency |-> currency]
        ELSE [status |-> 200,
              subtotal |-> subtotal + products[prods[1]].price_cents * item.quantity,
              currency |-> products[prods[1]].currency]

\* The pricing loop run over a catalog that does not change meanwhile.
RECURSIVE PriceCart(_, _, _, _)
PriceCart(items, products, subtotal, currency) ==
    IF items = << >>
    THEN [status |-> 200, subtotal |-> subtotal, currency |-> currency]
    ELSE LET one == PriceItem(Head(items), products, subtotal, currency)
         IN  IF one.status # 200 THEN one
             ELSE PriceCart(Tail(items), products, one.subtotal, one.currency)

OrderDoc(items, subtotal, total, currency) ==
    [items |-> items, subtotal_cents |-> subtotal, total_cents |-> total,
     currency |-> currency, status |-> "pending", delivered_codes |-> << >>]

\* Mutant: an exception of the payment request is not caught.
PaymentIntentFails(key, pay) ==
    IF key # "" /\ pay = "exception"
    THEN [status |-> 500, client_secret |-> None]
    ELSE [status |-> 200,
          client_secret |-> IF key # "" /\ pay = "ok" THEN "cs_secret" ELSE None]

\* The payment-intent block of checkout_init: what the request goes on with.
PaymentIntent(key, pay) ==
    [status |-> 200,
     client_secret |-> IF key # "" /\ pay = "ok" THEN "cs_secret" ELSE None]

\* Mutant: a short line item takes what there is instead of failing.
AllocateItemSkipShort(item, cks) ==
    [status |-> 200,
     docs |-> find_available_codes(cks, item.product_id, item.quantity)]

\* Mutant: one code per line item, whatever its quantity.
AllocateItemOne(item, cks) ==
    LET qty == item.quantity
        available == find_available_codes(cks, item.product_id, qty)
    IN  IF Len(available) < qty
        THEN [status |-> 409, docs |-> << >>]
        ELSE [status |-> 200, docs |-> SubSeq(available, 1, 1)]

\* One round of the allocation loop of checkout_confirm: the codekey documents
\* taken for the line item, or a shortage.
AllocateItem(item, cks) ==
    LET qty == item.quantity
        available == find_available_codes(cks, item.product_id, qty)
    IN  IF Len(available) < qty
        THEN [status |-> 409, docs |-> << >>]
        ELSE [status |-> 200, docs |-> [i \in 1..qty |-> available[i]]]

CodesOf(cks, docs) == [i \in 1..Len(docs) |-> cks[docs[i]].code]

\* ------------------------------------------------------ request handlers
\* A handler is async and yields at each store operation it awaits, so it
\* runs one store operation per step; the locals it holds between two
\* operations are in req[r].  Slot Serial is a server that takes its next
\* request when it has answered the last; a slot of Slots serves one request.
Idle ==
    [op |-> "idle", pc |-> "idle", order_id |-> 0, items |-> << >>,
     docs |-> << >>, email |-> None, resp |-> NoResp,
     token |-> None, prod |-> None, pid |-> 0, codes |-> << >>,
     inserted |-> << >>, cart |-> << >>, subtotal |-> 0, currency |-> "usd",
     name |-> << >>, world |-> << >>]

\* The handler of slot r, with locals `locals`, returns `response`.
Answer(r, locals, response) ==
    /\ req' = [req EXCEPT ![r] =
           IF r = Serial THEN Idle
           ELSE [locals EXCEPT !.pc = "done", !.resp = response]]
    /\ resp' = response

Finish(r, response) == Answer(r, req[r], response)

\* register up to its insert: the lookup of the email.
RegisterBegin(r, email) ==
    /\ req[r].pc = "idle"
    /\ LET started == [Idle EXCEPT !.op = "register", !.email = email]
       IN  IF get_user_by_email(user, email) # << >>
           THEN Answer(r, started, Reply("register", 400))
           ELSE /\ req' = [req EXCEPT ![r] = [started EXCEPT !.pc = "insert"]]
                /\ UNCHANGED resp
    /\ UNCHANGED <<store, given, searchlog>>

\* register from the insert of the user document to the response.
RegisterInsert(r) ==
    /\ req[r].op = "register"
    /\ req[r].pc = "insert"
    /\ user' = create_document(user, [email |-> req[r].email, role |-> "user"])
    /\ Finish(r, [Reply("register", 200) EXCEPT !.sub = req[r].email])
    /\ UNCHANGED <<product, codekey, order, given, searchlog>>

\* create_product up to its insert: the caller is looked up and checked.
CreateBegin(r, token, p) ==
    /\ req[r].pc = "idle"
    /\ LET gate == AdminGate(token, user)
           started == [Idle EXCEPT !.op = "create_product", !.token = token, !.prod = p]
       IN  IF gate # 200
           THEN Answer(r, started, [Reply("create_product", gate) EXCEPT !.token = token])
           ELSE /\ req' = [req EXCEPT ![r] = [started EXCEPT !.pc = "insert"]]
                /\ UNCHANGED resp
    /\ UNCHANGED <<store, given, searchlog>>

\* create_product from the insert of the product to the response.
CreateInsert(r) ==
    /\ req[r].op = "create_product"
    /\ req[r].pc = "insert"
    /\ product' = create_document(product, req[r].prod)
    /\ Finish(r, [Reply("create_product", 200) EXCEPT
                    !.token = req[r].token, !.id = Len(product) + 1])
    /\ UNCHANGED <<user, codekey, order, given, searchlog>>

\* update_product: its one store operation is the lookup of the caller.
UpdateProduct(r, token) ==
    /\ req[r].pc = "idle"
    /\ LET gate == AdminGate(token, user)
       IN  Answer(r, [Idle EXCEPT !.op = "update_product", !.token = token],
                  [Reply("update_product", IF gate # 200 THEN gate ELSE 501)
                     EXCEPT !.token = token])
    /\ UNCHANGED <<store, given, searchlog>>

\* add_codes up to its first insert: the caller is looked up and checked.
AddBegin(r, token, pid, codes) ==
    /\ req[r].pc = "idle"
    /\ LET gate == AdminGate(token, user)
           started == [Idle EXCEPT !.op = "add_codes", !.token = token,
                                   !.pid = pid, !.codes = codes]
       IN  IF gate # 200 \/ codes = << >>
           THEN Answer(r, started, [Reply("add_codes", gate) EXCEPT !.token = token])
           ELSE /\ req' = [req EXCEPT ![r] = [started EXCEPT !.pc = "insert"]]
                /\ UNCHANGED resp
    /\ UNCHANGED <<store, given, searchlog>>

\* One round of the loop of add_codes: one codekey document is inserted; after
\* the last one, the response.
AddInsert(r) ==
    /\ req[r].op = "add_codes"
    /\ req[r].pc = "insert"
    /\ LET inserted == Append(req[r].inserted, Len(codekey) + 1)
           rest == Tail(req[r].codes)
       IN  /\ codekey' = create_document(codekey, CodeKey(req[r].pid, Head(req[r].codes)))
           /\ IF rest = << >>
              THEN Finish(r, [Reply("add_codes", 200) EXCEPT
                                !.token = req[r].token, !.inserted = inserted])
              ELSE /\ req' = [req EXCEPT ![r].codes = rest, ![r].inserted = inserted]
                   /\ UNCHANGED resp
    /\ UNCHANGED <<user, product, order, given, searchlog>>

\* checkout_init before its first store operation.
InitBegin(r, cart) ==
    /\ req[r].pc = "idle"
    /\ req' = [req EXCEPT ![r] =
           [Idle EXCEPT !.op = "checkout_init", !.pc = "price", !.cart = cart,
                        !.items = cart]]
    /\ UNCHANGED <<store, given, resp, searchlog>>

\* One round of the pricing loop: the product of the next cart item is read.
InitPrice(r) ==
    /\ req[r].op = "checkout_init"
    /\ req[r].pc = "price"
    /\ req[r].items # << >>
    /\ LET one == PriceItem(Head(req[r].items), product,
                            req[r].subtotal, req[r].currency)
       IN  IF one.status # 200
           THEN Finish(r, [Reply("checkout_init", one.status) EXCEPT
                             !.cart = req[r].cart])
           ELSE /\ req' = [req EXCEPT ![r].items = Tail(req[r].items),
                                      ![r].subtotal = one.subtotal,
                                      ![r].currency = one.currency]
                /\ UNCHANGED resp
    /\ UNCHANGED <<store, given, searchlog>>

\* checkout_init after the loop: the order is inserted, the payment intent
\* requested (with the key the instance is configured with) and the response
\* returned.
InitInsert(r, STRIPE_API_KEY, pay) ==
    /\ req[r].op = "checkout_init"
    /\ req[r].pc = "price"
    /\ req[r].items = << >>
    /\ LET total == req[r].subtotal
           intent == PaymentIntent(STRIPE_API_KEY, pay)
       IN  /\ order' = create_document(
                  order, OrderDoc(req[r].cart, req[r].subtotal, total, req[r].currency))
           /\ given' = Append(given, << >>)
           /\ Finish(r, [Reply("checkout_init", intent.status) EXCEPT
                           !.order_id = Len(order) + 1,
                           !.total_cents = total,
                           !.client_secret = intent.client_secret,
                           !.pay = pay,
                           !.cart = req[r].cart])
    /\ UNCHANGED <<user, product, codekey, searchlog>>

\* checkout_confirm up to its loop: the order is read.
ConfirmBegin(r, oid) ==
    /\ req[r].pc = "idle"
    /\ LET orders == get_documents(order, {i \in DOMAIN order : i = oid}, 1)
           started == [Idle EXCEPT !.op = "checkout_confirm", !.order_id = oid]
       IN  IF orders = << >>
           THEN /\ Answer(r, started,
                          [Reply("checkout_confirm", 404) EXCEPT !.order_id = oid])
                /\ UNCHANGED given
           ELSE IF order[orders[1]].items = << >>
           THEN /\ Answer(r, started,
                          [Reply("checkout_confirm", 200) EXCEPT !.order_id = oid])
                /\ given' = [given EXCEPT ![oid] = << >>]
           ELSE /\ req' = [req EXCEPT ![r] =
                      [started EXCEPT !.pc = "loop", !.items = order[orders[1]].items]]
                /\ UNCHANGED <<resp, given>>
    /\ UNCHANGED <<store, searchlog>>

\* One round of the allocation loop: find_available_codes for the next line
\* item, then the shortage check, the codes taken and, after the last item,
\* the response.  Nothing is written to the store.
ConfirmItem(r) ==
    /\ req[r].op = "checkout_confirm"
    /\ req[r].pc = "loop"
    /\ LET one == AllocateItem(Head(req[r].items), codekey)
           docs == req[r].docs \o one.docs
           rest == Tail(req[r].items)
           oid == req[r].order_id
       IN  IF one.status # 200
           THEN /\ Finish(r, [Reply("checkout_confirm", one.status)
                                EXCEPT !.order_id = oid])
                /\ UNCHANGED given
           ELSE IF rest = << >>
           THEN /\ Finish(r, [Reply("checkout_confirm", 200) EXCEPT
                                !.order_id = oid,
                                !.codes = CodesOf(codekey, docs),
                                !.docs = docs])
                /\ given' = [given EXCEPT ![oid] = docs]
           ELSE /\ req' = [req EXCEPT ![r].items = rest, ![r].docs = docs]
                /\ UNCHANGED <<resp, given>>
    /\ UNCHANGED <<store, searchlog>>

\* ------------------------------------------- one request after the other
Init ==
    /\ user = <<[email |-> AdminEmail, role |-> "admin"]>>
    /\ product = << >>
    /\ codekey = << >>
    /\ order = << >>
    /\ given = << >>
    /\ resp = NoResp
    /\ req = [r \in {Serial} |-> Idle]
    /\ searchlog = << >>

\* The store has room for k more documents.
Room(k) == NumDocs + k <= MaxDocs

\* A request that may insert is taken while the store has room for what it
\* inserts; the steps of the request taken follow.
Next ==
    \/ \E e \in Emails : Room(1) /\ RegisterBegin(Serial, e)
    \/ RegisterInsert(Serial)
    \/ \E t \in Tokens, p \in ProductInputs : Room(1) /\ CreateBegin(Serial, t, p)
    \/ CreateInsert(Serial)
    \/ \E t \in Tokens : UpdateProduct(Serial, t)
    \/ \E t \in Tokens, pid \in PidInputs, cs \in CodeBatches :
           Room(Len(cs)) /\ AddBegin(Serial, t, pid, cs)
    \/ AddInsert(Serial)
    \/ \E c \in Carts : Room(1) /\ InitBegin(Serial, c)
    \/ InitPrice(Serial)
    \/ \E pc \in PayCases : InitInsert(Serial, pc[1], pc[2])
    \/ \E o \in OrderIdInputs : ConfirmBegin(Serial, o)
    \/ ConfirmItem(Serial)

Spec == Init /\ [][Next]_vars

\* ---------------------------------------------------- requests in flight
PendingOrder(cart, products) ==
    LET priced == PriceCart(cart, products, 0, "usd")
    IN  OrderDoc(cart, priced.subtotal, priced.subtotal, priced.currency)

InitConc ==
    /\ user = <<[email |-> AdminEmail, role |-> "admin"]>>
    /\ product \in ConcCatalogs
    /\ \E stock \in StockInputs : codekey = InsertCodes(<< >>, 1, stock)
    /\ \E c1 \in ConcCarts, c2 \in ConcCarts :
           /\ PriceCart(c1, product, 0, "usd").status = 200
           /\ PriceCart(c2, product, 0, "usd").status = 200
           /\ order = <<PendingOrder(c1, product), PendingOrder(c2, product)>>
    /\ given = <<<< >>, << >>>>
    /\ resp = NoResp
    /\ req = [r \in Slots |-> Idle]
    /\ searchlog = << >>

NextConc ==
    \/ \E r \in Slots, e \in Emails : RegisterBegin(r, e)
    \/ \E r \in Slots : RegisterInsert(r)
    \/ \E r \in Slots, t \in ConcTokens, p \in ProductInputs : CreateBegin(r, t, p)
    \/ \E r \in Slots : CreateInsert(r)
    \/ \E r \in Slots, t \in ConcTokens : UpdateProduct(r, t)
    \/ \E r \in Slots, t \in ConcTokens, pid \in PidInputs, cs \in CodeBatches :
           AddBegin(r, t, pid, cs)
    \/ \E r \in Slots : AddInsert(r)
    \/ \E r \in Slots, c \in Carts : InitBegin(r, c)
    \/ \E r \in Slots : InitPrice(r)
    \/ \E r \in Slots, pc \in ConcPayCases : InitInsert(r, pc[1], pc[2])
    \/ \E r \in Slots, o \in ConcOrderIds : ConfirmBegin(r, o)
    \/ \E r \in Slots : ConfirmItem(r)

SpecConc == InitConc /\ [][NextConc]_vars

\* ------------------------------------------------------- helper service
RECURSIVE lstrip(_)
lstrip(s) == IF s # << >> /\ Head(s) = " " THEN lstrip(Tail(s)) ELSE s

RECURSIVE rstrip(_)
rstrip(s) ==
    IF s # << >> /\ s[Len(s)] = " " THEN rstrip(SubSeq(s, 1, Len(s) - 1)) ELSE s

strip(s) == rstrip(lstrip(s))

\* The parse loop: one entry per skill, the default where the line is
\* missing or does not unpack into rank, level, xp.
ParseSkills(lines) ==
    [i \in 1..NumSkills |->
        IF i <= Len(lines) /\ Len(lines[i]) = 3
        THEN [rank |-> lines[i][1], level |-> lines[i][2], xp |-> lines[i][3]]
        ELSE [rank |-> -1, level |-> 1, xp |-> 0]]

SearchLog(game, query, ok, note) ==
    [game |-> game, query |-> query, result_ok |-> ok, note |-> note]

\* The guarded write of a search-log entry: create_document inside
\* try / except Exception: pass, so a write the store refuses is dropped.
LogSearch(log, entry, stored) ==
    IF stored THEN create_document(log, entry) ELSE log

\* get_osrs_stats: its one store operation is the write of the log entry.
GetOsrsStats(raw, outcome, feed, stored) ==
    LET username == strip(raw)
        query == [username |-> username]
        logged == IF stored THEN "written" ELSE "failed"
    IN  /\ IF username = << >>
           THEN /\ resp' = Reply("osrs_stats", 400)
                /\ UNCHANGED searchlog
           ELSE IF outcome = "404"
           THEN /\ resp' = [Reply("osrs_stats", 404) EXCEPT !.username = username]
                /\ UNCHANGED searchlog
           ELSE IF outcome = "ok"
           THEN /\ Len(searchlog) < MaxLogs
                /\ searchlog' = LogSearch(searchlog,
                                          SearchLog("osrs", query, TRUE, None), stored)
                /\ resp' = [Reply("osrs_stats", 200) EXCEPT
                              !.username = username, !.skills = ParseSkills(feed),
                              !.log = logged]
           ELSE /\ Len(searchlog) < MaxLogs
                /\ searchlog' = LogSearch(searchlog,
                                          SearchLog("osrs", query, FALSE, outcome), stored)
                /\ resp' = [Reply("osrs_stats", 500) EXCEPT
                              !.username = username, !.log = logged]
        /\ UNCHANGED <<store, given, req>>

\* The first ten results, each cut down to its fixed fields.
Trimmed(results) == SubSeq(results, 1, Min(MaxResults, Len(results)))

\* The query of a character search: the server only when a world is given.
XivParams(name, world) ==
    IF world # << >> THEN [name |-> name, server |-> world] ELSE [name |-> name]

\* search_ffxiv_character up to its response, or, when a result is not an
\* object and the trimming raises after the success entry was written, up to
\* that write: the failure entry is a second store operation.
SearchFfxiv(r, rawName, rawWorld, outcome, results, stored) ==
    LET name == strip(rawName)
        world == strip(rawWorld)
        params == XivParams(name, world)
        logged == IF stored THEN "written" ELSE "failed"
    IN  /\ req[r].pc = "idle"
        /\ IF name = << >>
           THEN /\ resp' = Reply("ffxiv_character", 400)
                /\ UNCHANGED <<searchlog, req>>
           ELSE IF outcome = "ok"
           THEN /\ Len(searchlog) < MaxLogs
                /\ searchlog' = LogSearch(searchlog,
                                          SearchLog("ffxiv", params, TRUE, None), stored)
                /\ resp' = [Reply("ffxiv_character", 200) EXCEPT
                              !.username = name, !.results = Trimmed(results),
                              !.log = logged]
                /\ UNCHANGED req
           ELSE IF outcome = "ok_bad_result"
           THEN /\ Len(searchlog) < MaxLogs
                /\ searchlog' = LogSearch(searchlog,
                                          SearchLog("ffxiv", params, TRUE, None), stored)
                /\ req' = [req EXCEPT ![r] =
                       [Idle EXCEPT !.op = "ffxiv_character", !.pc = "failed",
                                    !.name = name, !.world = world]]
                /\ UNCHANGED resp
           ELSE /\ Len(searchlog) < MaxLogs
                /\ searchlog' = LogSearch(searchlog,
                                          SearchLog("ffxiv", params, FALSE, outcome),
                                          stored)
                /\ resp' = [Reply("ffxiv_character", 500) EXCEPT
                              !.username = name, !.log = logged]
                /\ UNCHANGED req
        /\ UNCHANGED <<store, given>>

\* search_ffxiv_character after the trimming raised: the failure entry is
\* written and the request answers 500.
SearchFfxivFailed(r, stored) ==
    /\ req[r].op = "ffxiv_character"
    /\ req[r].pc = "failed"
    /\ Len(searchlog) < MaxLogs
    /\ searchlog' = LogSearch(searchlog,
                              SearchLog("ffxiv", XivParams(req[r].name, req[r].world),
                                        FALSE, "ok_bad_result"),
                              stored)
    /\ resp' = [Reply("ffxiv_character", 500) EXCEPT
                  !.username = req[r].name,
                  !.log = IF stored THEN "written" ELSE "failed"]
    /\ req' = [req EXCEPT ![r] = Idle]
    /\ UNCHANGED <<store, given>>

\* What the hiscore request, the answer and the store do, left out where the
\* handler does not look at them.
OsrsCases ==
    {<<"ok", feed, stored>> : feed \in Feeds, stored \in BOOLEAN}
    \cup {<<"404", << >>, TRUE>>}
    \cup {<<o, << >>, stored>> : o \in {"http_error", "exception"}, stored \in BOOLEAN}

XivCases ==
    {<<"ok", results, stored>> : results \in XivResults, stored \in BOOLEAN}
    \cup {<<o, << >>, stored>> : o \in {"ok_bad_result", "error"}, stored \in BOOLEAN}

\* The helper's handlers run in worker threads: a search may be between its
\* two writes while other requests are served.
InitOsrs ==
    /\ user = << >>
    /\ product = << >>
    /\ codekey = << >>
    /\ order = << >>
    /\ given = << >>
    /\ resp = NoResp
    /\ req = [r \in Slots |-> Idle]
    /\ searchlog = << >>

NextOsrs ==
    \/ \E raw \in NameInputs, c \in OsrsCases :
           GetOsrsStats(raw, c[1], c[2], c[3])
    \/ \E r \in Slots, raw \in XivNameInputs, world \in WorldInputs, c \in XivCases :
           SearchFfxiv(r, raw, world, c[1], c[2], c[3])
    \/ \E r \in Slots, stored \in BOOLEAN : SearchFfxivFailed(r, stored)

SpecOsrs == InitOsrs /\ [][NextOsrs]_vars

\* ================================================================ claims
Range(s) == {s[i] : i \in DOMAIN s}

\* Unassigned codekey documents of a product.
Stock(pid) ==
    Cardinality({i \in DOMAIN codekey :
                    codekey[i].product_id = pid /\ ~codekey[i].assigned})

RECURSIVE QtyUpTo(_, _)
QtyUpTo(items, k) == IF k = 0 THEN 0 ELSE QtyUpTo(items, k - 1) + items[k].quantity

RECURSIVE CartSum(_, _)
CartSum(items, k) ==
    IF k = 0 THEN 0
    ELSE CartSum(items, k - 1) + product[items[k].product_id].price_cents * items[k].quantity

Confirmed200 == resp.op = "checkout_confirm" /\ resp.status = 200

\* C1: after any sequence of requests handled one at a time, the codekey
\* documents given to two distinct successfully confirmed orders are disjoint.
C1_NoCodeInTwoOrders ==
    \A o1 \in DOMAIN given, o2 \in DOMAIN given :
        o1 # o2 => Range(given[o1]) \cap Range(given[o2]) = {}

DoneConfirm(r) ==
    /\ req[r].op = "checkout_confirm"
    /\ req[r].pc = "done"
    /\ req[r].resp.status = 200

\* C2: two interleaved confirmations of two orders for the same product, with
\* N unassigned codes of it in the store, together take at most N codes and
\* no codekey document is in both results.
C2_ConcurrentConfirmsDisjoint ==
    \A r1 \in Slots, r2 \in Slots :
        (/\ r1 # r2
         /\ DoneConfirm(r1)
         /\ DoneConfirm(r2)
         /\ req[r1].order_id # req[r2].order_id)
        => /\ Len(req[r1].resp.docs) + Len(req[r2].resp.docs) <= Stock(1)
           /\ Range(req[r1].resp.docs) \cap Range(req[r2].resp.docs) = {}

Shortage(items) ==
    \E k \in DOMAIN items : Stock(items[k].product_id) < items[k].quantity

\* C3: a confirmation of an existing order of which some line item has fewer
\* unassigned codes than its quantity fails with 409; the order stays pending
\* with no delivered codes and no codekey document is assigned to it.
C3_ShortageRejectsWhole ==
    (/\ resp.op = "checkout_confirm"
     /\ resp.order_id \in DOMAIN order
     /\ Shortage(order[resp.order_id].items))
    => /\ resp.status = 409
       /\ resp.codes = << >>
       /\ order[resp.order_id].status = "pending"
       /\ order[resp.order_id].delivered_codes = << >>
       /\ \A i \in DOMAIN codekey : codekey[i].order_id # resp.order_id

\* The shortage is in the second line item, the first had enough stock.
C3_Witness ==
    /\ resp.op = "checkout_confirm"
    /\ resp.status = 409
    /\ resp.order_id \in DOMAIN order
    /\ LET items == order[resp.order_id].items
       IN  /\ Len(items) = 2
           /\ Stock(items[1].product_id) >= items[1].quantity
           /\ Stock(items[2].product_id) < items[2].quantity

\* C4: after a successful confirmation every returned codekey document is
\* assigned to the order, and the order is fulfilled with the returned codes
\* as its delivered codes.
C4_SuccessCommits ==
    Confirmed200
    => /\ \A d \in Range(resp.docs) :
              codekey[d].assigned /\ codekey[d].order_id = resp.order_id
       /\ order[resp.order_id].status = "fulfilled"
       /\ order[resp.order_id].delivered_codes = resp.codes

\* C5: a successful confirmation returns as many codes as the sum of the
\* quantities of the order's line items, in line-item order: the codes of
\* item k are unassigned codes of item k's product and follow those of the
\* items before it.
C5_OneCodePerUnitInItemOrder ==
    Confirmed200
    => LET items == order[resp.order_id].items
       IN  /\ Len(resp.codes) = QtyUpTo(items, Len(items))
           /\ Len(resp.docs) = Len(resp.codes)
           /\ \A k \in DOMAIN items :
                  \A j \in (QtyUpTo(items, k - 1) + 1)..QtyUpTo(items, k) :
                      /\ resp.docs[j] \in DOMAIN codekey
                      /\ codekey[resp.docs[j]].product_id = items[k].product_id
                      /\ codekey[resp.docs[j]].code = resp.codes[j]

\* A successful confirmation of an order of two line items for two products.
C5_Witness ==
    /\ Confirmed200
    /\ LET items == order[resp.order_id].items
       IN  /\ Len(items) = 2
           /\ items[1].product_id # items[2].product_id
           /\ Len(resp.codes) = 2

\* C6: every persisted order has subtotal_cents equal to the sum over its
\* items of price_cents times quantity (a product named by two items counted
\* for each), total_cents equal to subtotal_cents, and checkout-init returns
\* the persisted total.
C6_TotalIsSumOfItems ==
    /\ \A o \in DOMAIN order :
           /\ order[o].subtotal_cents = CartSum(order[o].items, Len(order[o].items))
           /\ order[o].total_cents = order[o].subtotal_cents
    /\ (resp.op = "checkout_init" /\ resp.status = 200)
       => /\ resp.order_id \in DOMAIN order
          /\ resp.total_cents = order[resp.order_id].total_cents

\* An order was created from a cart that names one product in two items.
C6_Witness ==
    /\ resp.op = "checkout_init"
    /\ resp.status = 200
    /\ LET items == order[resp.order_id].items
       IN  /\ Len(items) = 2
           /\ items[1].product_id = items[2].product_id
           /\ resp.total_cents = 2 * product[items[1].product_id].price_cents

\* C7: a checkout-init that got as far as the payment block has persisted a
\* pending order; when the payment request fails (exception or non-2xx) the
\* call still succeeds with the order id and total and no client secret, and
\* the persisted order is the one created before the payment request.
C7_PaymentFailureKeepsOrder ==
    (resp.op = "checkout_init" /\ resp.pay # None)
    => /\ resp.order_id = Len(order)
       /\ order[resp.order_id].status = "pending"
       /\ resp.pay \in {"non2xx", "exception"}
          => /\ resp.status = 200
             /\ resp.client_secret = None
             /\ resp.total_cents = order[resp.order_id].total_cents
             /\ order[resp.order_id] =
                    PendingOrder(order[resp.order_id].items, product)

\* The payment request raised and the order of a priced cart is returned.
C7_Witness ==
    /\ resp.op = "checkout_init"
    /\ resp.pay = "exception"
    /\ resp.status = 200
    /\ resp.total_cents > 0

\* C8: the user collection holds at most one document per email, also when
\* the store operations of two register calls interleave.
C8_UniqueEmails ==
    \A i \in DOMAIN user, j \in DOMAIN user :
        i # j => user[i].email # user[j].email

AdminOps == {"create_product", "update_product", "add_codes"}

Unauthenticated(token) ==
    \/ token.kind \in {"missing", "garbled"}
    \/ token.sub = None
    \/ \A i \in DOMAIN user : user[i].email # token.sub

\* C9: an admin-only operation answers 401 to a missing, undecodable,
\* subject-less or unknown-user token and 403 to a token whose role is not
\* admin, and creates nothing in either case.
C9_AdminGateRejects ==
    resp.op \in AdminOps
    => /\ Unauthenticated(resp.token) => resp.status = 401
       /\ (~Unauthenticated(resp.token) /\ resp.token.role # "admin")
          => resp.status = 403
       /\ resp.status \in {401, 403} => (resp.id = 0 /\ resp.inserted = << >>)

\* C10: a stats request that reached the hiscore call has recorded a
\* search-log entry when it returns, so the log then holds an entry of its
\* query: result_ok = TRUE with the stats, result_ok = FALSE when it fails,
\* the 404 / NotFound failure included (a write the store refuses is dropped
\* by design and is left aside).
C10_EveryLookupLogged ==
    (resp.op = "osrs_stats" /\ resp.status # 400 /\ resp.log # "failed")
    => \E i \in DOMAIN searchlog :
           /\ searchlog[i].game = "osrs"
           /\ searchlog[i].query = [username |-> resp.username]
           /\ searchlog[i].result_ok = (resp.status = 200)

\* C11: within the result of one successful confirmation no codekey document
\* appears twice, also when two line items of the order name the same product.
C11_NoDuplicateInResult ==
    Confirmed200
    => \A i \in DOMAIN resp.docs, j \in DOMAIN resp.docs :
           i # j => resp.docs[i] # resp.docs[j]

\* Some item of the cart names a product id that is not in the catalog.
HasInvalidProduct(cart) ==
    \E k \in DOMAIN cart : cart[k].product_id \notin DOMAIN product

\* C12: a checkout-init whose cart names a product id missing from the
\* catalog, at whatever position, fails with 400 and leaves the order
\* collection unchanged.
C12_InvalidProductCreatesNoOrder ==
    [][(resp'.op = "checkout_init" /\ HasInvalidProduct(resp'.cart))
       => (resp'.status = 400 /\ order' = order)]_vars

\* Rejected for its second item, after the first was found in the catalog,
\* with an order already in the collection.
C12_Witness ==
    /\ resp.op = "checkout_init"
    /\ resp.status = 400
    /\ Len(resp.cart) = 2
    /\ resp.cart[1].product_id \in DOMAIN product
    /\ resp.cart[2].product_id \notin DOMAIN product
    /\ order # << >>
====
